---- MODULE Spec2Model ----
(***************************************************************************)
(* Model of server-go/main.go: the /api/login handler and the append of a  *)
(* submission to a JSON file kept in a GitHub repository through the       *)
(* Contents API (GET the file and its sha, append, PUT conditioned on the  *)
(* sha).  Each request is a process; a request's steps are the handler up  *)
(* to the GET, the GET with the local composition that follows it, and the *)
(* PUT with the response the handler then writes.  Requests interleave at  *)
(* these network calls only: the program shares no mutable state between   *)
(* requests once main has loaded the configuration.                         *)
(*                                                                         *)
(* Strings are sequences of one-character strings.  File content is a JSON *)
(* value: an array (whose elements are objects keyed by name, phone,       *)
(* linkedin, timestamp, or values that are no such object) or something    *)
(* that is no array.                                                        *)
(***************************************************************************)
EXTENDS Naturals, Sequences, FiniteSets

\* ---------------------------------------------------------------- bounds
MaxReq == 2      \* requests served
MaxTime == 1     \* the latest clock reading
MaxInit == 1     \* records in the file before the first request

\* ------------------------------------------------------- program constants
StatusCreated == 201
StatusBadRequest == 400
StatusMethodNotAllowed == 405
StatusInternalServerError == 500
NoStatus == 0    \* no response written yet
NoSha == 0       \* the empty string "" as a sha: none fetched, none sent

Reqs == 1..MaxReq

\* ----------------------------------------------------------------- strings
RECURSIVE TrimLeft(_)
TrimLeft(s) == IF s # <<>> /\ Head(s) = " " THEN TrimLeft(Tail(s)) ELSE s

RECURSIVE TrimRight(_)
TrimRight(s) ==
  IF s # <<>> /\ s[Len(s)] = " " THEN TrimRight(SubSeq(s, 1, Len(s) - 1)) ELSE s

\* strings.TrimSpace
TrimSpace(s) == TrimRight(TrimLeft(s))

\* time.Now().UTC().Format(time.RFC3339) of clock reading t
FormatRFC3339(t) == <<"T", t>>

\* ------------------------------------------------------------------- codec
\* type Submission: the struct the handler builds and the append carries
Submission(n, p, l, t) == [Name |-> n, Phone |-> p, LinkedIn |-> l, Timestamp |-> t]

\* MarshalSubmission with the linkedin key never written
MarshalSubmissionNoLinkedIn(s) ==
  [name |-> s.Name, phone |-> s.Phone, timestamp |-> s.Timestamp]

\* json encoding of one Submission: linkedin is omitempty
MarshalSubmission(s) ==
  IF s.LinkedIn = <<>>
  THEN [name |-> s.Name, phone |-> s.Phone, timestamp |-> s.Timestamp]
  ELSE [name |-> s.Name, phone |-> s.Phone, linkedin |-> s.LinkedIn,
        timestamp |-> s.Timestamp]

\* UnmarshalSubmission with the linkedin key never read
UnmarshalSubmissionNoLinkedIn(o) ==
  [Name |-> IF "name" \in DOMAIN o THEN o.name ELSE <<>>,
   Phone |-> IF "phone" \in DOMAIN o THEN o.phone ELSE <<>>,
   LinkedIn |-> <<>>,
   Timestamp |-> IF "timestamp" \in DOMAIN o THEN o.timestamp ELSE <<>>]

\* json decoding of one object into a Submission: an absent key leaves the
\* field at its zero value, the empty string
UnmarshalSubmission(o) ==
  [Name |-> IF "name" \in DOMAIN o THEN o.name ELSE <<>>,
   Phone |-> IF "phone" \in DOMAIN o THEN o.phone ELSE <<>>,
   LinkedIn |-> IF "linkedin" \in DOMAIN o THEN o.linkedin ELSE <<>>,
   Timestamp |-> IF "timestamp" \in DOMAIN o THEN o.timestamp ELSE <<>>]

\* a JSON value that is no object with string fields (a number, say):
\* json.Unmarshal into a Submission reports an error for it
BadElem == [number |-> 5]
IsObject(e) == "number" \notin DOMAIN e

JsonArray(es) == [kind |-> "array", elems |-> es]
\* content that is no JSON array (an object, plain text, a truncated file)
NotAnArray == [kind |-> "other", elems |-> <<>>]

\* json.MarshalIndent(arr, "", "  ")
MarshalIndent(arr) == JsonArray([i \in 1..Len(arr) |-> MarshalSubmission(arr[i])])

\* json.Unmarshal(content, &arr): err reports whether it failed
Unmarshal(content) ==
  IF content.kind = "array" /\ \A i \in 1..Len(content.elems) : IsObject(content.elems[i])
  THEN [err |-> FALSE,
        arr |-> [i \in 1..Len(content.elems) |-> UnmarshalSubmission(content.elems[i])]]
  ELSE [err |-> TRUE, arr |-> <<>>]

\* base64.StdEncoding: the PUT body and the GET response carry content so
B64Encode(c) == [b64 |-> c]
B64Decode(e) == e.b64

\* ------------------------------------------------------------------- state
VARIABLES
  store,      \* the file in the repository: [exists, content, sha]
  nextSha,    \* the sha the repository gives its next commit
  now,        \* the latest clock reading taken
  pc,         \* per request: "idle", "fetch", "put" or "done"
  req,        \* per request: the method and body received
  item,       \* per request: the Submission the handler built
  updated,    \* per request: the content composed for the PUT
  sha,        \* per request: the sha getGitHubFile returned
  status,     \* per request: the HTTP status answered
  fetchCalls, \* per request: GETs issued
  putCalls,   \* per request: PUTs issued
  fetchKind,  \* per request: how its GET ended
  putKind,    \* per request: how its PUT ended
  seen,       \* per request: the file as it was at its GET
  accepted,   \* per request: the repository applied its PUT
  log,        \* the Submissions whose PUT the repository applied, in order
  init0       \* the file as it was before the first request

vars == <<store, nextSha, now, pc, req, item, updated, sha, status, fetchCalls,
          putCalls, fetchKind, putKind, seen, accepted, log, init0>>

NoFile == [exists |-> FALSE, content |-> NotAnArray, sha |-> NoSha]
File(c, v) == [exists |-> TRUE, content |-> c, sha |-> v]

NoItem == Submission(<<>>, <<>>, <<>>, <<>>)

\* ------------------------------------------------------------------ inputs
\* records already in the file when the server starts: the first k of a
\* sequence that alternates a record without and one with a linkedin; the
\* ledgers tried are the empty one and the one of MaxInit records
InitObject(i) ==
  MarshalSubmission(Submission(<<"z">>, <<"9">>,
                               IF i % 2 = 1 THEN <<>> ELSE <<"k">>, FormatRFC3339(0)))
InitArray(k) == [i \in 1..k |-> InitObject(i)]
InitArrays == { InitArray(k) : k \in {0, MaxInit} }
\* the file before the first request: absent, a ledger, a ledger followed by
\* a value that is no record, or no array at all
InitStores ==
  {NoFile}
  \cup { File(JsonArray(es), 1) : es \in InitArrays }
  \cup { File(JsonArray(Append(InitArray(MaxInit), BadElem)), 1) }
  \cup { File(NotAnArray, 1) }

\* Requests received.  ok is whether the body decodes into the handler's
\* struct (well-formed JSON, no unknown field); a field the body lacks
\* decodes to "", like a field sent empty.
Request(m, ok, n, p, l) ==
  [method |-> m, ok |-> ok, name |-> n, phone |-> p, linkedin |-> l]
ValidRequests ==
  { Request("POST", TRUE, <<" ", "a">>, <<"7", " ">>, <<>>),
    Request("POST", TRUE, <<"b">>, <<"7">>, <<" ", "l">>) }
Requests ==
  ValidRequests
  \cup { Request("POST", TRUE, <<>>, <<"7">>, <<>>),
         Request("POST", TRUE, <<" ">>, <<"7">>, <<>>),
         Request("POST", TRUE, <<"b">>, <<>>, <<>>),
         Request("POST", TRUE, <<"b">>, <<" ">>, <<>>),
         Request("POST", FALSE, <<"b">>, <<"7">>, <<>>),
         Request("GET", TRUE, <<"b">>, <<"7">>, <<>>) }

NoReq == Request("", FALSE, <<>>, <<>>, <<>>)

Init ==
  /\ store \in InitStores
  /\ init0 = store
  /\ nextSha = 2
  /\ now = 0
  /\ pc = [p \in Reqs |-> "idle"]
  /\ req = [p \in Reqs |-> NoReq]
  /\ item = [p \in Reqs |-> NoItem]
  /\ updated = [p \in Reqs |-> NotAnArray]
  /\ sha = [p \in Reqs |-> NoSha]
  /\ status = [p \in Reqs |-> NoStatus]
  /\ fetchCalls = [p \in Reqs |-> 0]
  /\ putCalls = [p \in Reqs |-> 0]
  /\ fetchKind = [p \in Reqs |-> "none"]
  /\ putKind = [p \in Reqs |-> "none"]
  /\ seen = [p \in Reqs |-> NoFile]
  /\ accepted = [p \in Reqs |-> FALSE]
  /\ log = <<>>

\* ----------------------------------------------------------------- handler
\* EarlyStatus with name and phone compared to "" untrimmed
EarlyStatusNoTrim(r) ==
  IF r.method # "POST" THEN StatusMethodNotAllowed
  ELSE IF ~r.ok THEN StatusBadRequest
  ELSE IF r.name = <<>> \/ r.phone = <<>> THEN StatusBadRequest
  ELSE NoStatus

\* the status loginHandler answers before it contacts the repository, or
\* NoStatus when the request passes the method, decoding and validation checks
EarlyStatus(r) ==
  IF r.method # "POST" THEN StatusMethodNotAllowed
  ELSE IF ~r.ok THEN StatusBadRequest
  ELSE IF TrimSpace(r.name) = <<>> \/ TrimSpace(r.phone) = <<>> THEN StatusBadRequest
  ELSE NoStatus

\* BuildSubmission with the fields taken as the body gave them
BuildSubmissionRaw(r, t) == Submission(r.name, r.phone, r.linkedin, FormatRFC3339(t))

\* the Submission loginHandler builds from a request at clock reading t
BuildSubmission(r, t) ==
  Submission(TrimSpace(r.name), TrimSpace(r.phone), TrimSpace(r.linkedin),
             FormatRFC3339(t))

\* loginHandler up to its call of appendSubmissionToGitHub.  Requests are
\* numbered in the order they arrive; t is the clock reading time.Now()
\* returns, which never runs backwards: the reading of the request before,
\* or the next one.  Readings are counted from the first one taken, which is
\* reading 0.  A request answered early never reads the clock.
LoginHandler(p, r, t) ==
  /\ pc[p] = "idle"
  /\ (IF p = 1 THEN TRUE ELSE pc[p - 1] # "idle")
  /\ t \in {now, now + 1}
  /\ ((\A q \in Reqs : item[q] = NoItem) => t = now)
  /\ now' = (IF EarlyStatus(r) # NoStatus THEN now ELSE t)
  /\ (EarlyStatus(r) # NoStatus => t = now)
  /\ req' = [req EXCEPT ![p] = r]
  /\ IF EarlyStatus(r) # NoStatus
     THEN /\ status' = [status EXCEPT ![p] = EarlyStatus(r)]
          /\ pc' = [pc EXCEPT ![p] = "done"]
          /\ UNCHANGED item
     ELSE /\ item' = [item EXCEPT ![p] = BuildSubmission(r, t)]
          /\ pc' = [pc EXCEPT ![p] = "fetch"]
          /\ UNCHANGED status
  /\ UNCHANGED <<store, nextSha, updated, sha, fetchCalls, putCalls,
                 fetchKind, putKind, seen, accepted, log, init0>>

\* ------------------------------------------------------------- the GET side
NoContent == B64Encode(NotAnArray)
GetResponse(k, c, v) == [kind |-> k, content |-> c, sha |-> v]

\* What the GET of the file can come back as.  "neterr": http.Client.Do
\* returns an error of the transport (connection failure, timeout).
\* "cancelled": Do returns the error of the request's context, which ended
\* (the caller went away) before the response came.
\* "http5xx", "http4xx": a status >= 300 other than 404.
\* "envelope": a 2xx body that is no content envelope with base64 content.
\* "notfound": 404, the file does not exist.  "found": the file and its sha.
GetResponses(st) ==
  { GetResponse(k, NoContent, NoSha) : k \in {"neterr", "cancelled", "http5xx", "http4xx", "envelope"} }
  \cup (IF st.exists
        THEN {GetResponse("found", B64Encode(st.content), st.sha)}
        ELSE {GetResponse("notfound", NoContent, NoSha)})

\* getGitHubFile with the sha of a found file dropped
getGitHubFileNoSha(resp) ==
  IF resp.kind = "notfound"
  THEN [content |-> NotAnArray, sha |-> NoSha, err |-> "notfound"]
  ELSE IF resp.kind = "found"
  THEN [content |-> B64Decode(resp.content), sha |-> NoSha, err |-> ""]
  ELSE [content |-> NotAnArray, sha |-> NoSha, err |-> resp.kind]

\* getGitHubFile with the sha kept from the first request's call in place of
\* the one this response carries
getGitHubFileCachedSha(resp) ==
  IF resp.kind = "notfound"
  THEN [content |-> NotAnArray, sha |-> NoSha, err |-> "notfound"]
  ELSE IF resp.kind = "found"
  THEN [content |-> B64Decode(resp.content), sha |-> sha[1], err |-> ""]
  ELSE [content |-> NotAnArray, sha |-> NoSha, err |-> resp.kind]

\* getGitHubFile: (content, sha, err) from the response; err is "" for nil
\* and "notfound" for errNotFound
getGitHubFile(resp) ==
  IF resp.kind = "notfound"
  THEN [content |-> NotAnArray, sha |-> NoSha, err |-> "notfound"]
  ELSE IF resp.kind = "found"
  THEN [content |-> B64Decode(resp.content), sha |-> resp.sha, err |-> ""]
  ELSE [content |-> NotAnArray, sha |-> NoSha, err |-> resp.kind]

\* FetchFails with transport errors and 5xx answers passed over like a 404
FetchFailsFatalOnly(g) == g.err \in {"http4xx", "envelope"}

\* FetchFails with only transport errors and 5xx answers returned, any
\* other error passed over like a 404
FetchFailsTransientOnly(g) == g.err \in {"neterr", "http5xx"}

\* whether appendSubmissionToGitHub returns getGitHubFile's error: every
\* error but errNotFound
FetchFails(g) == g.err # "" /\ g.err # "notfound"

\* the content appendSubmissionToGitHub decodes: "[]" after a 404
FetchedContent(g) == IF g.err = "notfound" THEN JsonArray(<<>>) ELSE g.content

\* the slice appendSubmissionToGitHub appends to: the decoded file, or an
\* empty slice when the file does not decode
DecodedOrEmpty(content) ==
  LET u == Unmarshal(content) IN IF u.err THEN <<>> ELSE u.arr

\* AppendItem with the new record put in front
AppendItemFront(arr, it) == <<it>> \o arr

\* arr = append(arr, item)
AppendItem(arr, it) == Append(arr, it)

\* Compose with the fetched content ignored: always a fresh array
ComposeFresh(g, it) == MarshalIndent(AppendItem(<<>>, it))

\* the content appendSubmissionToGitHub composes for the PUT
Compose(g, it) == MarshalIndent(AppendItem(DecodedOrEmpty(FetchedContent(g)), it))

\* appendSubmissionToGitHub from its call of getGitHubFile to the content it
\* hands putGitHubFile; on a fetch error the handler answers 500
Fetch(p, resp) ==
  /\ pc[p] = "fetch"
  /\ resp \in GetResponses(store)
  /\ fetchCalls' = [fetchCalls EXCEPT ![p] = @ + 1]
  /\ fetchKind' = [fetchKind EXCEPT ![p] = resp.kind]
  /\ seen' = [seen EXCEPT ![p] = store]
  /\ LET g == getGitHubFile(resp) IN
       IF FetchFails(g)
       THEN /\ status' = [status EXCEPT ![p] = StatusInternalServerError]
            /\ pc' = [pc EXCEPT ![p] = "done"]
            /\ UNCHANGED <<updated, sha>>
       ELSE /\ updated' = [updated EXCEPT ![p] = Compose(g, item[p])]
            /\ sha' = [sha EXCEPT ![p] = g.sha]
            /\ pc' = [pc EXCEPT ![p] = "put"]
            /\ UNCHANGED status
  /\ UNCHANGED <<store, nextSha, now, req, item, putCalls, putKind, accepted,
                 log, init0>>

\* ------------------------------------------------------------- the PUT side
\* the update request putGitHubFile sends: sha is left out when it is ""
UpdateRequest(content, v) == [content |-> B64Encode(content), sha |-> v]

\* The repository's conditional write: an update of an existing file must
\* carry the file's current sha, a creation must carry none.
StoreAccepts(st, body) ==
  IF st.exists THEN body.sha = st.sha ELSE body.sha = NoSha

\* What the PUT can come back as.  "ok": the repository applied the update
\* and answered 2xx.  "conflict": it refused the sha (409, 422).  "status":
\* another status >= 300.  "neterr": Do returned an error of the transport
\* and the request never took effect.  "cancelled": the request's context
\* ended before the request took effect, and Do returned its error.
\* "lost": the repository applied the update, and Do
\* still returned an error (the response was lost, or the request's context
\* was cancelled while the response was in flight).
PutResponses(st, body) ==
  {"neterr", "cancelled", "status"}
  \cup (IF StoreAccepts(st, body) THEN {"ok", "lost"} ELSE {"conflict"})

\* whether the repository applied the update
Applied(k) == k \in {"ok", "lost"}

\* PutFails with the error of a cancelled context not counted as a failure
PutFailsUnlessCancelled(k) == k \notin {"ok", "cancelled"}

\* putGitHubFile's error: nil only for a response with a status below 300
PutFails(k) == k # "ok"

\* FinalStatus with the append's error ignored
FinalStatusAlwaysCreated(failed) == StatusCreated

\* the status loginHandler answers after appendSubmissionToGitHub returns
FinalStatus(failed) ==
  IF failed THEN StatusInternalServerError ELSE StatusCreated

\* PcAfterPut with the append started over after a conflict
RetryAfterConflict(k) == IF k = "conflict" THEN "fetch" ELSE "done"

\* where the request stands once putGitHubFile has returned: its result,
\* error or not, is returned to the handler, which answers
PcAfterPut(k) == "done"

\* putGitHubFile, and loginHandler's answer after it
Put(p, k) ==
  /\ pc[p] = "put"
  /\ LET body == UpdateRequest(updated[p], sha[p]) IN
       /\ k \in PutResponses(store, body)
       /\ IF Applied(k)
          THEN /\ store' = File(B64Decode(body.content), nextSha)
               /\ nextSha' = nextSha + 1
               /\ log' = Append(log, item[p])
          ELSE UNCHANGED <<store, nextSha, log>>
  /\ accepted' = [accepted EXCEPT ![p] = Applied(k)]
  /\ putCalls' = [putCalls EXCEPT ![p] = @ + 1]
  /\ putKind' = [putKind EXCEPT ![p] = k]
  /\ pc' = [pc EXCEPT ![p] = PcAfterPut(k)]
  /\ status' = [status EXCEPT ![p] =
                  IF PcAfterPut(k) = "done" THEN FinalStatus(PutFails(k)) ELSE @]
  /\ UNCHANGED <<now, req, item, updated, sha, fetchCalls, fetchKind, seen, init0>>

\* ----------------------------------------------------------- specification
Next ==
  \/ \E p \in Reqs, r \in Requests, t \in 0..MaxTime : LoginHandler(p, r, t)
  \/ \E p \in Reqs, resp \in GetResponses(store) : Fetch(p, resp)
  \/ \E p \in Reqs, k \in {"ok", "lost", "conflict", "status", "neterr", "cancelled"} :
       Put(p, k)

Spec == Init /\ [][Next]_vars

\* ------------------------------------------------------------------ claims
\* the JSON values the file holds, none for a file that does not exist or
\* is no array
Elems(st) == IF st.exists /\ st.content.kind = "array" THEN st.content.elems ELSE <<>>

\* the file does not exist, or is an array of record objects
WellFormed(st) ==
  \/ ~st.exists
  \/ /\ st.content.kind = "array"
     /\ \A i \in 1..Len(st.content.elems) : "number" \notin DOMAIN st.content.elems[i]

\* the record objects the file holds, in order
StoredRecords(st) == SelectSeq(Elems(st), LAMBDA e : "number" \notin DOMAIN e)

IsPrefix(a, b) == Len(a) <= Len(b) /\ SubSeq(b, 1, Len(a)) = a

\* the JSON object of a Submission, written out field by field
ObjectOf(s) ==
  IF s.LinkedIn = <<>>
  THEN [name |-> s.Name, phone |-> s.Phone, timestamp |-> s.Timestamp]
  ELSE [name |-> s.Name, phone |-> s.Phone, linkedin |-> s.LinkedIn,
        timestamp |-> s.Timestamp]

\* a string of spaces only, the empty string included
IsBlank(s) == \A i \in 1..Len(s) : s[i] = " "

\* s without its leading and trailing spaces
Stripped(s) ==
  IF IsBlank(s) THEN <<>>
  ELSE LET ix == { i \in 1..Len(s) : s[i] # " " }
           lo == CHOOSE i \in ix : \A j \in ix : i <= j
           hi == CHOOSE i \in ix : \A j \in ix : i >= j
       IN SubSeq(s, lo, hi)

\* request p takes the step in which the repository applies its PUT
Commits(p) == pc[p] = "put" /\ accepted'[p]

\* C1, in each state: every record whose PUT the repository applied is in
\* the file, the applied records being the file's last ones in the order
\* their PUTs were applied.
C1_NoneMissing ==
  /\ Len(log) > 0 => store.exists /\ store.content.kind = "array"
  /\ Len(log) <= Len(Elems(store))
  /\ \A i \in 1..Len(log) :
       Elems(store)[Len(Elems(store)) - Len(log) + i] = ObjectOf(log[i])

\* C1, in each step: when the repository applies a request's PUT, the file
\* is still the one that request fetched, and, that file being absent or a
\* well-formed ledger, the new content is that ledger with the request's one
\* record appended at the end.
C1_CommitExtends ==
  \A p \in Reqs :
    Commits(p) =>
      /\ seen[p] = store
      /\ WellFormed(seen[p]) =>
           store'.content = JsonArray(Append(Elems(seen[p]), ObjectOf(item[p])))

\* C1: for every interleaving of concurrent appends, each applied commit
\* writes the ledger that was the file's content at that request's own fetch
\* with exactly one new record appended at the end, and no record committed
\* by another request is missing from the file.
C1_NoLostUpdate == [](C1_NoneMissing) /\ [][C1_CommitExtends]_vars

\* C1 witness: two requests fetched the same existing file; the repository
\* applied the PUT of one and refused the other's as a conflict.
C1_Witness ==
  \E p, q \in Reqs :
    /\ p # q
    /\ accepted[p] /\ putKind[q] = "conflict"
    /\ seen[p] = seen[q] /\ seen[p].exists /\ WellFormed(seen[p])
    /\ Len(Elems(seen[p])) > 0

\* C2: no step removes or changes a record the file already holds: the
\* records stored before the step are a prefix of those stored after it.
C2_LedgerNeverShrinks == [][IsPrefix(StoredRecords(store), StoredRecords(store'))]_vars

\* C3: a request whose fetch found content that does not decode as a ledger
\* fails (500) without issuing any PUT, and the repository never applies a
\* PUT of it.
C3_CorruptFailsClosed ==
  \A p \in Reqs :
    (fetchKind[p] = "found" /\ ~WellFormed(seen[p])) =>
      /\ pc[p] = "done"
      /\ status[p] = StatusInternalServerError
      /\ putCalls[p] = 0
      /\ ~accepted[p]

\* a request that passed the handler's checks and went on to the append
IsValid(p) == pc[p] # "idle" /\ EarlyStatus(req[p]) = NoStatus

\* C4 as stated: after a Conflict with attempts remaining (fewer than the 5
\* of maxAttempts made) the append re-enters Fetch.
C4_ConflictReentersFetch ==
  [][\A p \in Reqs :
       (pc[p] = "put" /\ putKind'[p] = "conflict" /\ putCalls'[p] < 5)
         => pc'[p] = "fetch"]_vars

\* C4 amended: a Conflict ends the append in failure (500) after its one
\* fetch and its one PUT, with nothing applied; a PUT the repository applies
\* is the request's first, made after its one fetch, and carries the ledger
\* that fetch observed (the file being absent or a well-formed ledger) plus
\* the new record.
C4_ConflictEndsAppend ==
  \A p \in Reqs :
    /\ putKind[p] = "conflict" =>
         /\ pc[p] = "done" /\ status[p] = StatusInternalServerError
         /\ fetchCalls[p] = 1 /\ putCalls[p] = 1 /\ ~accepted[p]
    /\ accepted[p] =>
         /\ fetchCalls[p] = 1 /\ putCalls[p] = 1
         /\ WellFormed(seen[p]) =>
              updated[p] = JsonArray(Append(Elems(seen[p]), ObjectOf(item[p])))

\* C4 witness: a request's PUT was refused as a conflict because another
\* request's PUT had been applied since its fetch.
C4_Witness ==
  \E p, q \in Reqs :
    /\ p # q /\ putKind[p] = "conflict" /\ pc[p] = "done"
    /\ accepted[q] /\ seen[p] = seen[q]

\* C5 as stated: an append whose PUTs all end in Conflict fails only after
\* exactly maxAttempts (5) PUTs.
C5_FailsAfterMaxAttempts ==
  \A p \in Reqs :
    (pc[p] = "done" /\ putKind[p] = "conflict") =>
      (putCalls[p] = 5 /\ status[p] = StatusInternalServerError)

\* C5 amended: the step in which a PUT ends in Conflict is the request's
\* only PUT, ends the append in failure (500), and leaves the file's content
\* and sha as they were.
C5_ConflictLeavesFile ==
  [][\A p \in Reqs :
       (pc[p] = "put" /\ putKind'[p] = "conflict") =>
         /\ store' = store
         /\ putCalls'[p] = 1
         /\ pc'[p] = "done"
         /\ status'[p] = StatusInternalServerError]_vars

\* C5 witness: a request ended on a Conflict with the file changed since
\* its fetch by another request, and still as that request left it.
C5_Witness ==
  \E p \in Reqs :
    /\ pc[p] = "done" /\ putKind[p] = "conflict" /\ putCalls[p] = 1
    /\ store # seen[p] /\ store.exists /\ Len(log) = 1

\* the valid requests, and whether each has ended with its fetch answered
\* found or not-found and its PUT applied and answered 2xx
ValidReqs == { p \in Reqs : IsValid(p) }
AllAppended ==
  \A p \in ValidReqs :
    pc[p] = "done" /\ fetchKind[p] \in {"found", "notfound"} /\ putKind[p] = "ok"

\* C6: when every valid submission so far was appended with no conflict and
\* no failure, starting from a ledger of length L (0 for an absent file),
\* the ledger has length L + N, begins with the L records it began with, and
\* its N last records are the N submissions' records, one each, with the
\* name, phone and linkedin of their requests (surrounding whitespace apart)
\* and the timestamp the handler gave them.
C6_AppendCorrect ==
  (WellFormed(init0) /\ AllAppended) =>
    LET L == Len(Elems(init0))
        N == Cardinality(ValidReqs)
    IN /\ Len(Elems(store)) = L + N
       /\ WellFormed(store)
       /\ SubSeq(Elems(store), 1, L) = Elems(init0)
       /\ \E f \in [1..N -> ValidReqs] :
            /\ \A i, j \in 1..N : f[i] = f[j] => i = j
            /\ \A i \in 1..N : Elems(store)[L + i] = ObjectOf(item[f[i]])
       /\ \A p \in ValidReqs :
            /\ item[p].Name = Stripped(req[p].name)
            /\ item[p].Phone = Stripped(req[p].phone)
            /\ item[p].LinkedIn = Stripped(req[p].linkedin)

\* C6 witness: two submissions, one with a linkedin, appended one after
\* the other to a ledger of one record.
C6_Witness ==
  /\ AllAppended /\ Cardinality(ValidReqs) = 2
  /\ Len(Elems(init0)) = 1 /\ WellFormed(init0)
  /\ \E p \in ValidReqs : item[p].LinkedIn # <<>>
  /\ \E p \in ValidReqs : item[p].LinkedIn = <<>>

\* the PUT request p sends carries no sha
SendsNoSha(p) == UpdateRequest(updated[p], sha[p]).sha = NoSha

\* C7, in each state: a request whose fetch was answered not-found composes
\* a ledger of its one record and sends its PUT without a sha; and a PUT is
\* sent without a sha only by a request whose fetch was answered not-found.
C7_BootstrapState ==
  \A p \in Reqs :
    (pc[p] = "put" \/ putCalls[p] > 0) =>
      /\ fetchKind[p] = "notfound" =>
           SendsNoSha(p) /\ updated[p] = JsonArray(<<ObjectOf(item[p])>>)
      /\ SendsNoSha(p) => fetchKind[p] = "notfound"

\* C7, in each step: when the repository applies the PUT of a request whose
\* fetch was answered not-found, the file then holds exactly one record, the
\* new one.
C7_BootstrapStep ==
  \A p \in Reqs :
    (Commits(p) /\ fetchKind[p] = "notfound") =>
      /\ ~store.exists
      /\ store'.exists
      /\ store'.content = JsonArray(<<ObjectOf(item[p])>>)

\* C7: after a not-found fetch the append composes from the empty ledger
\* and commits with no expected version, a successful such commit leaves a
\* ledger of exactly the one new record, and the expected version is absent
\* only after a not-found fetch.
C7_Bootstrap == [](C7_BootstrapState) /\ [][C7_BootstrapStep]_vars

\* C7 witness: the file was absent, a request's fetch was answered
\* not-found and its PUT applied; another request then fetched the file and
\* sends its sha.
C7_Witness ==
  \E p, q \in Reqs :
    /\ fetchKind[p] = "notfound" /\ putKind[p] = "ok"
    /\ fetchKind[q] = "found" /\ pc[q] = "put" /\ ~SendsNoSha(q)
    /\ Len(Elems(seen[q])) = 1

\* request p takes a step that ends it with an answer other than 201
EndsInFailure(p) ==
  pc[p] # "done" /\ pc'[p] = "done" /\ status'[p] # StatusCreated

\* C8: a step that ends an append in failure leaves the file's content and
\* sha as they were, and the file changes only in the step of a successful
\* append's PUT, to the content that append composed.
C8_FailureLeavesFile ==
  [][/\ \A p \in Reqs : EndsInFailure(p) => store' = store
     /\ store' # store =>
          \E p \in Reqs :
            /\ pc[p] = "put" /\ pc'[p] = "done" /\ status'[p] = StatusCreated
            /\ store'.content = updated[p]]_vars

\* C9: a POST whose name or phone is blank (absent, empty or spaces only)
\* or whose body does not decode is answered 400 with no GET and no PUT
\* issued.
C9_ValidationShortCircuit ==
  \A p \in Reqs :
    (/\ pc[p] # "idle"
     /\ req[p].method = "POST"
     /\ (~req[p].ok \/ IsBlank(req[p].name) \/ IsBlank(req[p].phone))) =>
      /\ pc[p] = "done"
      /\ status[p] = StatusBadRequest
      /\ fetchCalls[p] = 0 /\ putCalls[p] = 0
      /\ item[p] = NoItem

\* C9 witness: a POST with a name of spaces only, and one whose body does
\* not decode, were answered 400.
C9_Witness ==
  \E p, q \in Reqs :
    /\ pc[p] = "done" /\ req[p].method = "POST" /\ req[p].ok
    /\ req[p].name # <<>> /\ IsBlank(req[p].name)
    /\ status[p] = StatusBadRequest
    /\ pc[q] = "done" /\ ~req[q].ok /\ status[q] = StatusBadRequest

\* a fetch ended by a failure that may pass: a transport error or a 5xx
Transient(p) == fetchKind[p] \in {"neterr", "http5xx"}

\* C10 as stated: an append fails on a transient fetch failure only when
\* its attempts (the 5 of maxAttempts) are used up, re-entering Fetch until
\* then.
C10_TransientRetried ==
  \A p \in Reqs : (pc[p] = "done" /\ Transient(p)) => fetchCalls[p] = 5

\* C10 amended: a transient fetch failure ends the append at once in
\* failure (500), after its one GET and with no PUT issued.
C10_TransientFailsAtOnce ==
  \A p \in Reqs :
    Transient(p) =>
      /\ pc[p] = "done"
      /\ status[p] = StatusInternalServerError
      /\ fetchCalls[p] = 1 /\ putCalls[p] = 0
      /\ ~accepted[p]

\* C10 witness: one request ended on a transport error of its GET, another
\* on a 5xx answer.
C10_Witness ==
  \E p, q \in Reqs :
    /\ fetchKind[p] = "neterr" /\ pc[p] = "done"
    /\ fetchKind[q] = "http5xx" /\ pc[q] = "done"

\* a fetch ended by a failure that will not pass: a 4xx answer other than
\* 404, or a response that is no content envelope
FatalFetch(p) == fetchKind[p] \in {"http4xx", "envelope"}

\* a PUT ended by a status >= 300 that is no conflict
FatalPut(p) == putKind[p] = "status"

\* C11: after a fatal failure of the fetch (an unparsable response included)
\* the append has failed (500) with that one GET and no PUT, nothing
\* composed and nothing applied, so the failure was not taken for an empty
\* ledger; after a fatal failure of the commit it has failed (500) with its
\* one GET and that one PUT, nothing applied.
C11_FatalFailsAtOnce ==
  \A p \in Reqs :
    /\ FatalFetch(p) =>
         /\ pc[p] = "done" /\ status[p] = StatusInternalServerError
         /\ fetchCalls[p] = 1 /\ putCalls[p] = 0
         /\ updated[p] = NotAnArray /\ ~accepted[p]
    /\ FatalPut(p) =>
         /\ pc[p] = "done" /\ status[p] = StatusInternalServerError
         /\ fetchCalls[p] = 1 /\ putCalls[p] = 1
         /\ ~accepted[p]

\* C11 witness: one request ended on a response that is no envelope,
\* another on a fatal status of its PUT, the file left as it began.
C11_Witness ==
  \E p, q \in Reqs :
    /\ fetchKind[p] = "envelope" /\ pc[p] = "done"
    /\ FatalPut(q) /\ pc[q] = "done"
    /\ store = init0

\* the sha the PUT of request p carries, NoSha for none
SentSha(p) == UpdateRequest(updated[p], sha[p]).sha

\* the append of request p returned without error: the request was
\* answered 201
Succeeded(p) == pc[p] = "done" /\ status[p] = StatusCreated

\* C12, in each state: of two requests whose PUTs carried the same sha, or
\* both none, at most one succeeded, and the repository applied the PUT of
\* at most one.
C12_SameVersionState ==
  \A p, q \in Reqs :
    (p # q /\ putCalls[p] > 0 /\ putCalls[q] > 0 /\ SentSha(p) = SentSha(q)) =>
      /\ ~(Succeeded(p) /\ Succeeded(q))
      /\ ~(accepted[p] /\ accepted[q])

\* C12, in each step: a PUT is applied, and an append succeeds, only when
\* the sha the PUT carries is the file's sha at that moment, none standing
\* for a file that does not exist.
C12_SameVersionStep ==
  \A p \in Reqs :
    (pc[p] = "put" /\ (accepted'[p] \/ status'[p] = StatusCreated)) =>
      /\ SentSha(p) = store.sha
      /\ store.exists <=> SentSha(p) # NoSha

\* C12: of two concurrent appends whose commits carry the same expected
\* version (both absent included) at most one ends in success, and a commit
\* succeeds only if its expected version is the store's current version at
\* commit time.
C12_AtMostOneSucceeds == [](C12_SameVersionState) /\ [][C12_SameVersionStep]_vars

\* C12 witness: two requests found no file and both sent a PUT without a
\* sha; one succeeded and the other was refused as a conflict.
C12_Witness ==
  \E p, q \in Reqs :
    /\ p # q
    /\ putCalls[p] > 0 /\ putCalls[q] > 0
    /\ SentSha(p) = NoSha /\ SentSha(q) = NoSha
    /\ Succeeded(p) /\ putKind[q] = "conflict" /\ pc[q] = "done"

\* the request's context was cancelled during its GET or its PUT
CancelledReq(p) == fetchKind[p] = "cancelled" \/ putKind[p] = "cancelled"

\* the append of request p failed for a cause other than cancellation
AppendFailed(p) ==
  \/ FatalFetch(p) \/ Transient(p)
  \/ putKind[p] \in {"status", "conflict", "neterr"}

\* C13 as stated: an append ended by the cancellation of its fetch or commit
\* ends with an outcome of its own, distinct from that of a failed append.
C13_CancelledDistinct ==
  \A p, q \in Reqs :
    (pc[p] = "done" /\ CancelledReq(p) /\ pc[q] = "done" /\ AppendFailed(q)) =>
      status[p] # status[q]

\* C13 amended: a cancellation during the fetch or the commit ends the
\* append in failure, answered 500 as every other failed append is; a
\* cancelled fetch is the request's one GET and is followed by no PUT, a
\* cancelled commit is its one PUT, and nothing is applied.
C13_CancelledFails ==
  \A p \in Reqs :
    /\ CancelledReq(p) =>
         /\ pc[p] = "done" /\ status[p] = StatusInternalServerError
         /\ fetchCalls[p] = 1 /\ ~accepted[p]
    /\ fetchKind[p] = "cancelled" => putCalls[p] = 0
    /\ putKind[p] = "cancelled" => putCalls[p] = 1
    /\ (pc[p] = "done" /\ AppendFailed(p)) => status[p] = StatusInternalServerError

\* C13 witness: one request was cancelled during its fetch, another during
\* its commit.
C13_Witness ==
  \E p, q \in Reqs :
    /\ fetchKind[p] = "cancelled" /\ pc[p] = "done"
    /\ putKind[q] = "cancelled" /\ pc[q] = "done"

\* C14: a request is answered 201 exactly when the repository applied its
\* PUT; a valid request whose PUT was not applied is answered 500; a request
\* that is no POST is answered 405 with no GET and no PUT issued.
C14_CreatedIffAccepted ==
  \A p \in Reqs :
    pc[p] = "done" =>
      /\ status[p] = StatusCreated <=> accepted[p]
      /\ (IsValid(p) /\ ~accepted[p]) => status[p] = StatusInternalServerError
      /\ req[p].method # "POST" =>
           /\ status[p] = StatusMethodNotAllowed
           /\ fetchCalls[p] = 0 /\ putCalls[p] = 0

\* the GET of request p returned the file or a 404
Fetched(p) == fetchKind[p] \in {"found", "notfound"}

\* the slice request p holds after json.Unmarshal of what it fetched
BaseOf(p) ==
  DecodedOrEmpty(IF seen[p].exists THEN seen[p].content ELSE JsonArray(<<>>))

RoundTrips(x) == Unmarshal(MarshalIndent(x)) = [err |-> FALSE, arr |-> x]

\* C15: json.Unmarshal(json.MarshalIndent(x)) gives x back, without error,
\* for every slice x of Submissions an append holds between its GET and its
\* PUT: the slice decoded from the fetched file (empty after a 404), and that
\* slice with the new record appended, whose encoding is the content the
\* request composed; records with an empty linkedin are written without the
\* key and read back the same.
C15_RoundTrip ==
  \A p \in Reqs :
    pc[p] = "put" =>
      LET x == Append(BaseOf(p), item[p]) IN
        /\ RoundTrips(BaseOf(p))
        /\ RoundTrips(x)
        /\ Unmarshal(updated[p]) = [err |-> FALSE, arr |-> x]
        /\ \A i \in 1..Len(x) :
             x[i].LinkedIn = <<>> => "linkedin" \notin DOMAIN updated[p].elems[i]

C15_Witness ==
  \E p, q \in Reqs :
    /\ fetchKind[p] = "notfound" /\ BaseOf(p) = <<>> /\ accepted[p]
    /\ pc[q] = "put"
    /\ LET x == Append(BaseOf(q), item[q]) IN
         \E i, j \in 1..Len(x) : x[i].LinkedIn = <<>> /\ x[j].LinkedIn # <<>>

\* C16: the sha a request's PUT carries is the sha its own GET returned
\* (none after a 404), and the content it carries is made of the file as
\* that GET saw it and the request's own record: nothing of either comes
\* from another request.
C16_OwnFetchOnly ==
  \A p \in Reqs :
    (pc[p] = "put" \/ putCalls[p] > 0) =>
      /\ Fetched(p)
      /\ sha[p] = (IF seen[p].exists THEN seen[p].sha ELSE NoSha)
      /\ updated[p] =
           JsonArray((IF WellFormed(seen[p]) THEN Elems(seen[p]) ELSE <<>>)
                       \o <<ObjectOf(item[p])>>)

\* the second request fetched after the first one's commit and carries the
\* sha of that commit, the first one the sha it fetched itself
C16_Witness ==
  \E p, q \in Reqs :
    /\ putCalls[p] = 1 /\ accepted[p]
    /\ putCalls[q] = 1 /\ accepted[q]
    /\ seen[q].exists /\ sha[q] = seen[q].sha /\ sha[q] # sha[p]
    /\ Len(Elems(seen[q])) = Len(Elems(seen[p])) + 1

\* when the repository applies the PUT of request p, the record of p is
\* the file's last one, and, records having been committed before, the file
\* as it was is kept in front of it: each record committed earlier stays at
\* its position, below the new one
C17_CommitStep ==
  \A p \in Reqs :
    Commits(p) =>
      LET old == Elems(store)
          new == Elems(store')
      IN /\ new # <<>> /\ new[Len(new)] = ObjectOf(item[p])
         /\ log # <<>> =>
              /\ Len(new) = Len(old) + 1
              /\ IsPrefix(old, new)
              /\ \E i \in 1..Len(old) : old[i] = ObjectOf(log[Len(log)])

\* C17: the order of the records in the file is the order in which their
\* PUTs were applied: a record committed earlier is at a lower position than
\* every record committed later, whichever request arrived first.
C17_CommitOrder == [][C17_CommitStep]_vars

\* request 2, which arrived second, committed first, and request 1 after it
C17_Witness ==
  /\ accepted[1] /\ accepted[2]
  /\ item[1] # item[2]
  /\ log = <<item[2], item[1]>>

\* the call of appendSubmissionToGitHub for request p has returned
Returned(p) == pc[p] = "done" /\ IsValid(p)

C18_Counts ==
  \A p \in Reqs :
    /\ fetchCalls[p] <= 1 /\ putCalls[p] <= 1
    /\ pc[p] = "fetch" => fetchCalls[p] = 0 /\ putCalls[p] = 0
    /\ pc[p] = "put" => fetchCalls[p] = 1 /\ putCalls[p] = 0
    /\ Returned(p) => fetchCalls[p] = 1
    /\ (pc[p] = "put" \/ putCalls[p] > 0) => Fetched(p)
    /\ (pc[p] = "done" /\ ~Fetched(p)) => putCalls[p] = 0

\* how far a request has come
Rank(l) == IF l = "idle" THEN 0 ELSE IF l = "fetch" THEN 1 ELSE IF l = "put" THEN 2 ELSE 3

\* a call that has not returned has its next network call to make, and
\* that call can come back
C18_NeverStuck ==
  \A p \in Reqs :
    /\ pc[p] = "fetch" => ENABLED (\E resp \in GetResponses(store) : Fetch(p, resp))
    /\ pc[p] = "put" =>
         ENABLED (\E k \in {"ok", "lost", "conflict", "status", "neterr", "cancelled"} :
                    Put(p, k))

\* a request never goes back, and each GET and each PUT moves it forward
C18_Forward ==
  \A p \in Reqs :
    /\ Rank(pc'[p]) >= Rank(pc[p])
    /\ (fetchCalls'[p] # fetchCalls[p] \/ putCalls'[p] # putCalls[p]) =>
         Rank(pc'[p]) > Rank(pc[p])

\* C18: every call of appendSubmissionToGitHub returns after exactly one GET
\* and at most one PUT: each network call that comes back moves the call
\* forward from fetch to put to done, never back, and a call that has not
\* returned is never left without a step to take; the PUT is issued only
\* when the GET returned the file or a 404, never after another outcome.
C18_SingleShot ==
  /\ [] (C18_Counts /\ C18_NeverStuck)
  /\ [][C18_Forward]_vars

\* one call has returned after a GET and a PUT, another after a GET alone
C18_Witness ==
  \E p, q \in Reqs :
    /\ Returned(p) /\ fetchCalls[p] = 1 /\ putCalls[p] = 1
    /\ Returned(q) /\ fetchCalls[q] = 1 /\ putCalls[q] = 0

\* a string that is not empty and neither begins nor ends with a space
Trimmed(s) == s # <<>> /\ s[1] # " " /\ s[Len(s)] # " "

\* C19: every record the repository took from this server, as the handler
\* built it and as the file holds it, has a name and a phone that are not
\* empty and neither begin nor end with whitespace, and a timestamp that is
\* a reading of the server's clock; it is the record of a request that was
\* not rejected.  A request answered 400 built no record, issued no GET and
\* no PUT, and nothing of it is in the file.
C19_RecordsValid ==
  LET es == Elems(store)
      n == Len(log)
  IN /\ \A i \in 1..n :
          /\ Trimmed(log[i].Name) /\ Trimmed(log[i].Phone)
          /\ \E t \in 0..now : log[i].Timestamp = FormatRFC3339(t)
          /\ \E p \in Reqs :
               /\ accepted[p] /\ item[p] = log[i]
               /\ status[p] # StatusBadRequest
               /\ log[i].Name = Stripped(req[p].name)
               /\ log[i].Phone = Stripped(req[p].phone)
          /\ Len(es) >= n
          /\ LET e == es[Len(es) - n + i] IN
               /\ Trimmed(e.name) /\ Trimmed(e.phone)
               /\ e.timestamp = log[i].Timestamp
     /\ \A p \in Reqs :
          status[p] = StatusBadRequest =>
            /\ item[p] = NoItem /\ ~accepted[p]
            /\ fetchCalls[p] = 0 /\ putCalls[p] = 0
            /\ Len(es) <= Len(Elems(init0)) + n

\* a request whose name and phone came with surrounding spaces was appended
\* without them, and another request was answered 400
C19_Witness ==
  \E p, q \in Reqs :
    /\ accepted[p] /\ req[p].name # item[p].Name /\ req[p].phone # item[p].Phone
    /\ \E i \in 1..Len(Elems(store)) : Elems(store)[i] = ObjectOf(item[p])
    /\ status[q] = StatusBadRequest

====
